---- MODULE Spec2Model ----
(***************************************************************************)
(* A model of the lottery-dashboard scripts:                               *)
(*   scripts/clean_powerball.py  (Ingestor + Transformer), under Spec      *)
(*   scripts/load_to_sqlite.py   (Loader),                 under LoadSpec  *)
(*                                                                         *)
(* Conventions.                                                            *)
(*   A raw CSV cell is a record [kind, val]: a numeric token Num(n), a     *)
(*   non-numeric token Text(i), or an empty cell NaN.                      *)
(*   A nullable value (pandas Int64 / datetime64) is a tuple: <<>> for     *)
(*   <NA>/NaT, <<n>> for the integer n, <<y, m, d>> for a date.            *)
(*   A table row is a function from column names to values.                *)
(***************************************************************************)
EXTENDS Integers, Sequences, FiniteSets, TLC

VARIABLES
    pc,        \* position of clean_powerball.main
    file,      \* the input CSV: [width, lines]
    outdirMade,\* outdir.mkdir has run
    raw,       \* result of read_powerball_csv: [columns, rows]
    wide,      \* result of build_wide (sequence of rows)
    long,      \* result of build_long (sequence of rows)
    written,   \* names of the output files written so far
    err,       \* message of the exception that ended main, "" if none
    db,        \* the SQLite store: [created, tables: name -> [exists, cols, rows]]
    log        \* the Loader invocations so far, each with how it ended

vars == <<pc, file, outdirMade, raw, wide, long, written, err, db, log>>

cleanVars == <<pc, file, outdirMade, raw, wide, long, written, err>>
loadVars  == <<db, log>>

\* ------------------------------------------------------------------ bounds

\* Largest number of data lines in an input file of the cleaner.
MaxRows == 2
\* Largest number of Loader invocations against one database.
MaxLoads == 2

\* ------------------------------------------------------------- generic helpers

Range(s) == { s[i] : i \in DOMAIN s }

IndexOf(s, x) == CHOOSE i \in DOMAIN s : s[i] = x

SeqsUpTo(S, n) == UNION { [1..k -> S] : k \in 1..n }

\* ------------------------------------------------------------------- cells

Num(n)  == [kind |-> "num",  val |-> n]
Text(i) == [kind |-> "text", val |-> i]
NaN     == [kind |-> "nan",  val |-> 0]

NA  == <<>>
NaT == <<>>

notna(v) == v # <<>>

\* pd.to_numeric(x, errors="coerce"): a numeric token parses, anything else
\* (text, empty) becomes NaN; .astype("Int64") keeps the integer or <NA>.
to_numeric(cell) == IF cell.kind = "num" THEN <<cell.val>> ELSE NA

\* ------------------------------------------------------------- Ingestor

EXPECTED_WITH_POWERPLAY ==
    <<"Game","Month","Day","Year","Num1","Num2","Num3","Num4","Num5","Powerball","PowerPlay">>

EXPECTED_WITHOUT_POWERPLAY ==
    <<"Game","Month","Day","Year","Num1","Num2","Num3","Num4","Num5","Powerball">>

\* df.columns = names: positional assignment of names to the cells of a line.
AssignColumns(names, line) == [c \in Range(names) |-> line[IndexOf(names, c)]]

\* df[c] = v: the column is added, or overwritten when the frame has it.
SetColumn(row, c, v) == [k \in (DOMAIN row) \cup {c} |-> IF k = c THEN v ELSE row[k]]

\* df[[...]]: select the listed columns, in the listed order.
SelectColumns(cols, row) == [c \in Range(cols) |-> row[c]]

UnexpectedColumns == "Unexpected number of columns"

\* Mutant: the 10-column branch fills PowerPlay with 0 instead of null.
read_powerball_csv_zero_fill(f) ==
    IF f.width = 11
    THEN [ok |-> TRUE, error |-> "",
          columns |-> EXPECTED_WITH_POWERPLAY,
          rows |-> [i \in DOMAIN f.lines |->
                      SelectColumns(EXPECTED_WITH_POWERPLAY,
                          AssignColumns(EXPECTED_WITH_POWERPLAY, f.lines[i]))]]
    ELSE IF f.width = 10
    THEN [ok |-> TRUE, error |-> "",
          columns |-> EXPECTED_WITH_POWERPLAY,
          rows |-> [i \in DOMAIN f.lines |->
                      SelectColumns(EXPECTED_WITH_POWERPLAY,
                          SetColumn(AssignColumns(EXPECTED_WITHOUT_POWERPLAY, f.lines[i]),
                                    "PowerPlay", Num(0)))]]
    ELSE [ok |-> FALSE, error |-> UnexpectedColumns, columns |-> <<>>, rows |-> <<>>]

\* Mutant: any width is accepted; short lines are padded, long ones cut.
read_powerball_csv_any_width(f) ==
    [ok |-> TRUE, error |-> "",
     columns |-> EXPECTED_WITH_POWERPLAY,
     rows |-> [i \in DOMAIN f.lines |->
                 [c \in Range(EXPECTED_WITH_POWERPLAY) |->
                     IF IndexOf(EXPECTED_WITH_POWERPLAY, c) <= f.width
                     THEN f.lines[i][IndexOf(EXPECTED_WITH_POWERPLAY, c)]
                     ELSE NaN]]]

read_powerball_csv(f) ==
    IF f.width = 11
    THEN [ok |-> TRUE, error |-> "",
          columns |-> EXPECTED_WITH_POWERPLAY,
          rows |-> [i \in DOMAIN f.lines |->
                      SelectColumns(EXPECTED_WITH_POWERPLAY,
                          AssignColumns(EXPECTED_WITH_POWERPLAY, f.lines[i]))]]
    ELSE IF f.width = 10
    THEN [ok |-> TRUE, error |-> "",
          columns |-> EXPECTED_WITH_POWERPLAY,
          rows |-> [i \in DOMAIN f.lines |->
                      SelectColumns(EXPECTED_WITH_POWERPLAY,
                          SetColumn(AssignColumns(EXPECTED_WITHOUT_POWERPLAY, f.lines[i]),
                                    "PowerPlay", NaN))]]
    ELSE [ok |-> FALSE, error |-> UnexpectedColumns, columns |-> <<>>, rows |-> <<>>]

\* ------------------------------------------------------------- Transformer

IsLeap(y) == (y % 4 = 0 /\ y % 100 # 0) \/ y % 400 = 0

DaysInMonth(y, m) ==
    IF m = 2 THEN (IF IsLeap(y) THEN 29 ELSE 28)
    ELSE IF m \in {4, 6, 9, 11} THEN 30 ELSE 31

IsCalendarDate(y, m, d) == m \in 1..12 /\ d \in 1..DaysInMonth(y, m)

\* pd.to_datetime(dict(year=, month=, day=), errors="coerce").  pandas
\* assembles the three columns into the single number
\* year*10000 + month*100 + day and parses that number as %Y%m%d; a null
\* component makes the number null.  What is validated is the eight-digit
\* number, not the three components (years are four-digit here).
to_datetime(year, month, day) ==
    IF year = NA \/ month = NA \/ day = NA THEN NaT
    ELSE LET values == year[1] * 10000 + month[1] * 100 + day[1]
             y == values \div 10000
             m == (values \div 100) % 100
             d == values % 100
         IN  IF IsCalendarDate(y, m, d) THEN <<y, m, d>> ELSE NaT

to_date(row) ==
    LET month == to_numeric(row["Month"])
        day   == to_numeric(row["Day"])
        year  == to_numeric(row["Year"])
    IN  to_datetime(year, month, day)

num_cols == <<"Num1","Num2","Num3","Num4","Num5","Powerball","PowerPlay">>

\* The numeric columns become nullable integers.  Game (stripped text) and the
\* other columns keep their cells; none of them reaches the wide table.
clean_types(row) ==
    [c \in DOMAIN row |->
        IF c \in Range(num_cols) THEN to_numeric(row[c]) ELSE row[c]]

dedupe_keys == <<"Date","Num1","Num2","Num3","Num4","Num5","Powerball","PowerPlay">>

SameKey(a, b) == \A k \in Range(dedupe_keys) : a[k] = b[k]

RECURSIVE DropDuplicates(_, _)
DropDuplicates(kept, rest) ==
    IF rest = <<>> THEN kept
    ELSE IF \E i \in DOMAIN kept : SameKey(kept[i], Head(rest))
         THEN DropDuplicates(kept, Tail(rest))
         ELSE DropDuplicates(Append(kept, Head(rest)), Tail(rest))

\* Mutant: deduplicates on the Date alone.
dedupe_by_date_only(rows) ==
    LET RECURSIVE Drop(_, _)
        Drop(kept, rest) ==
            IF rest = <<>> THEN kept
            ELSE IF \E i \in DOMAIN kept : kept[i]["Date"] = Head(rest)["Date"]
                 THEN Drop(kept, Tail(rest))
                 ELSE Drop(Append(kept, Head(rest)), Tail(rest))
    IN  Drop(<<>>, rows)

\* df.drop_duplicates(subset=keys, keep="first"); <NA> equals <NA> there.
dedupe_by_draw(rows) == DropDuplicates(<<>>, rows)

wide_columns ==
    <<"Date","Num1","Num2","Num3","Num4","Num5","Powerball","PowerPlay","Year","YearMonth">>

DateKey(date) == date[1] * 10000 + date[2] * 100 + date[3]

\* out.sort_values("Date"): the default sort kind is not stable, so rows that
\* share a Date may come out in either order.
SortedByDate(rows) ==
    LET n == Len(rows)
        perms == { p \in [1..n -> 1..n] : \A i, j \in 1..n : i # j => p[i] # p[j] }
    IN  { [i \in 1..n |-> rows[p[i]]] : p \in
            { q \in perms : \A i, j \in 1..n :
                i < j => DateKey(rows[q[i]]["Date"]) <= DateKey(rows[q[j]]["Date"]) } }

WithDate(row) == SetColumn(row, "Date", to_date(row))

HasDate(row) == notna(row["Date"])

HasAllNumbers(row) ==
    \A c \in {"Num1","Num2","Num3","Num4","Num5","Powerball"} : notna(row[c])

\* Year and YearMonth helpers, then the lean column selection.  A YearMonth
\* period "YYYY-MM" is the pair <<year, month>>.
LeanRow(row) ==
    SelectColumns(wide_columns,
        SetColumn(SetColumn(row, "Year", row["Date"][1]),
                  "YearMonth", <<row["Date"][1], row["Date"][2]>>))

\* build_wide up to the sort: the rows before sort_values and dedupe_by_draw.
CleanedRows(rows) ==
    LET dated    == SelectSeq([i \in DOMAIN rows |-> WithDate(rows[i])], HasDate)
        typed    == [i \in DOMAIN dated |-> clean_types(dated[i])]
        complete == SelectSeq(typed, HasAllNumbers)
    IN  [i \in DOMAIN complete |-> LeanRow(complete[i])]

\* The tables build_wide can return for a raw table.
build_wide(rows) == { dedupe_by_draw(s) : s \in SortedByDate(CleanedRows(rows)) }

\* ---- long reshape

IntPos(k) == [kind |-> "int", int |-> k, str |-> ""]
StrPos(s) == [kind |-> "str", int |-> 0, str |-> s]

value_vars == <<"Num1","Num2","Num3","Num4","Num5">>

\* main["Position"].str.extract(r"(\d+)").astype(int)
ExtractDigits(name) ==
    CASE name = "Num1" -> 1 [] name = "Num2" -> 2 [] name = "Num3" -> 3
      [] name = "Num4" -> 4 [] name = "Num5" -> 5

long_columns == <<"Date","BallType","BallNumber","Position","PowerPlay","Year","YearMonth">>

LongRow(w, ballType, ballNumber, position) ==
    [c \in Range(long_columns) |->
        CASE c = "BallType"   -> ballType
          [] c = "BallNumber" -> ballNumber
          [] c = "Position"   -> position
          [] OTHER            -> w[c]]

\* wide.melt(...): one block of rows per value column, in value_vars order,
\* each block in wide order.
Melt(w) ==
    LET n == Len(w)
    IN  [j \in 1..(Len(value_vars) * n) |->
            LET v == value_vars[((j - 1) \div n) + 1]
                r == w[((j - 1) % n) + 1]
            IN  LongRow(r, "Main", r[v], IntPos(ExtractDigits(v)))]

PowerballRows(w) ==
    [i \in DOMAIN w |-> LongRow(w[i], "Powerball", w[i]["Powerball"], StrPos("PB"))]

\* Mutant: the Powerball rows carry the fifth main number.
build_long_pb_from_num5(w) ==
    Melt(w) \o [i \in DOMAIN w |-> LongRow(w[i], "Powerball", w[i]["Num5"], StrPos("PB"))]

build_long(w) == Melt(w) \o PowerballRows(w)

\* ---- clean_powerball.main, one action per call it makes

OutputFiles == {"powerball_clean_wide.csv", "powerball_clean_long.csv", "data_dictionary.csv"}

NoTable == [ok |-> FALSE, error |-> "", columns |-> <<>>, rows |-> <<>>]

\* outdir.mkdir(...); raw = read_powerball_csv(inp)
MainRead ==
    /\ pc = "start"
    /\ outdirMade' = TRUE
    /\ LET r == read_powerball_csv(file)
       IN  IF r.ok
           THEN /\ raw' = r
                /\ pc' = "read"
                /\ err' = err
           ELSE /\ raw' = raw
                /\ pc' = "failed"
                /\ err' = r.error
    /\ UNCHANGED <<file, wide, long, written, loadVars>>

\* wide = build_wide(raw)
MainBuildWide ==
    /\ pc = "read"
    /\ \E w \in build_wide(raw.rows) : wide' = w
    /\ pc' = "wide"
    /\ UNCHANGED <<file, outdirMade, raw, long, written, err, loadVars>>

\* long = build_long(wide)
MainBuildLong ==
    /\ pc = "wide"
    /\ long' = build_long(wide)
    /\ pc' = "long"
    /\ UNCHANGED <<file, outdirMade, raw, wide, written, err, loadVars>>

\* the three to_csv calls
MainWrite ==
    /\ pc = "long"
    /\ written' = OutputFiles
    /\ pc' = "done"
    /\ UNCHANGED <<file, outdirMade, raw, wide, long, err, loadVars>>

\* ---- the input files of the cleaner

\* Tokens of a non-numeric cell.
GameText == Text(1)
BadText  == Text(2)

MonthCells == {Num(0), Num(1), Num(2), Num(13), BadText}
DayCells   == {Num(5), Num(105), BadText}

BaseBalls == <<Num(3), Num(14), Num(22), Num(35), Num(41), Num(9)>>

Line(month, day, year, balls, powerplay) ==
    <<GameText, month, day, year>> \o balls \o <<powerplay>>

\* Lines that differ from the example draw of 2020-01-05 in their date cells,
\* in one ball cell, or in the PowerPlay cell.
DateLines ==
    { Line(m, d, Num(2020), BaseBalls, Num(2)) : m \in MonthCells, d \in DayCells }
    \cup { Line(Num(1), Num(5), BadText, BaseBalls, Num(2)),
           Line(Num(2), Num(30), Num(2020), BaseBalls, Num(2)) }

BallLines ==
    { Line(Num(1), Num(5), Num(2020), [BaseBalls EXCEPT ![k] = BadText], Num(2)) : k \in 1..6 }
    \cup { Line(Num(1), Num(5), Num(2020), [BaseBalls EXCEPT ![6] = c], Num(2)) :
             c \in {NaN, Num(10)} }

PowerPlayLines ==
    { Line(Num(1), Num(5), Num(2020), BaseBalls, pp) : pp \in {BadText, NaN} }

Lines == DateLines \cup BallLines \cup PowerPlayLines

Widths == {9, 10, 11, 12}

\* A line of eleven cells cut or padded to the file's width.
FitLine(line, w) ==
    IF w <= Len(line) THEN SubSeq(line, 1, w)
    ELSE line \o [i \in 1..(w - Len(line)) |-> NaN]

\* The files given to the cleaner: one to MaxRows lines, every line of the
\* file's width (an empty file ends pd.read_csv with its own error and gives
\* no table to speak of).
InputFiles ==
    { [width |-> w, lines |-> [i \in DOMAIN ls |-> FitLine(ls[i], w)]] :
        w \in Widths, ls \in SeqsUpTo(Lines, MaxRows) }

NoDb == [created |-> FALSE,
         tables |-> [t \in {"draws", "draws_wide"} |->
                        [exists |-> FALSE, cols |-> <<>>, rows |-> <<>>]]]

Init ==
    /\ pc = "start"
    /\ file \in InputFiles
    /\ outdirMade = FALSE
    /\ raw = NoTable
    /\ wide = <<>>
    /\ long = <<>>
    /\ written = {}
    /\ err = ""
    /\ db = NoDb
    /\ log = <<>>

Next ==
    \/ MainRead
    \/ MainBuildWide
    \/ MainBuildLong
    \/ MainWrite

Spec == Init /\ [][Next]_vars

\* ------------------------------------------------------------- Loader

LONG_COLS == <<"Date","BallType","BallNumber","Position","PowerPlay","Year","YearMonth">>
WIDE_COLS == <<"Date","Num1","Num2","Num3","Num4","Num5","Powerball","PowerPlay","Year","YearMonth">>

IntegerColumns == {"BallNumber","Num1","Num2","Num3","Num4","Num5","Powerball","PowerPlay","Year"}

\* infer_schema: the column types and the ordered columns of a schema.
infer_schema(schema) ==
    LET cols == IF schema = "long" THEN LONG_COLS ELSE WIDE_COLS
    IN  [types |-> [c \in Range(cols) |-> IF c \in IntegerColumns THEN "INTEGER" ELSE "TEXT"],
         ordered_cols |-> cols]

\* The text of a null cell after astype(str).
NanText == Text(0)

\* coerce_types on one row: INTEGER columns become nullable integers, TEXT
\* columns the cell's text (a null cell becomes the text "nan").
coerce_types(row, types) ==
    [c \in DOMAIN types |->
        IF types[c] = "INTEGER" THEN to_numeric(row[c])
        ELSE IF row[c] = NaN THEN NanText ELSE row[c]]

\* Mutant: --replace is ignored, an existing table is always reused.
create_table_keep(store, table, sch, replace) ==
    [created |-> TRUE,
     tables |-> [store.tables EXCEPT ![table] =
                    IF store.tables[table].exists THEN @
                    ELSE [exists |-> TRUE, cols |-> sch.ordered_cols, rows |-> <<>>]]]

\* DROP TABLE IF EXISTS when replace, then CREATE TABLE IF NOT EXISTS.
create_table(store, table, sch, replace) ==
    LET dropped == IF replace
                   THEN [store.tables EXCEPT ![table] =
                            [exists |-> FALSE, cols |-> <<>>, rows |-> <<>>]]
                   ELSE store.tables
    IN  [created |-> TRUE,
         tables |-> [dropped EXCEPT ![table] =
                        IF dropped[table].exists THEN @
                        ELSE [exists |-> TRUE, cols |-> sch.ordered_cols, rows |-> <<>>]]]

\* Mutant: only rows the table does not hold yet are inserted.
insert_rows_new_only(store, table, rows, ordered_cols) ==
    IF \E c \in Range(ordered_cols) : c \notin Range(store.tables[table].cols)
    THEN [ok |-> FALSE, store |-> store]
    ELSE [ok |-> TRUE,
          store |-> [store EXCEPT !.tables[table].rows =
                        @ \o SelectSeq([i \in DOMAIN rows |-> SelectColumns(ordered_cols, rows[i])],
                                       LAMBDA r : r \notin Range(store.tables[table].rows))]]

\* INSERT INTO table (ordered_cols) VALUES (...) for every row; the statement
\* fails (sqlite3.OperationalError) when the table lacks one of the columns,
\* and then no row is inserted.
insert_rows(store, table, rows, ordered_cols) ==
    IF \E c \in Range(ordered_cols) : c \notin Range(store.tables[table].cols)
    THEN [ok |-> FALSE, store |-> store]
    ELSE [ok |-> TRUE,
          store |-> [store EXCEPT !.tables[table].rows =
                        @ \o [i \in DOMAIN rows |-> SelectColumns(ordered_cols, rows[i])]]]

NotGiven == "<not given>"

\* Mutant: without --table a wide load goes to draws_wide.
ParseTable_by_schema(tableArg, schema) ==
    IF tableArg = NotGiven
    THEN (IF schema = "wide" THEN "draws_wide" ELSE "draws")
    ELSE tableArg

\* ap.add_argument("--table", default="draws"): the table main loads into.
ParseTable(tableArg, schema) == IF tableArg = NotGiven THEN "draws" ELSE tableArg

\* The expected columns the CSV lacks.
MissingColumns(csv, ordered_cols) ==
    SelectSeq(ordered_cols, LAMBDA c : c \notin Range(csv.columns))

Call(csv, schema, tableArg, replace) ==
    [csv |-> csv, schema |-> schema, tableArg |-> tableArg,
     table |-> ParseTable(tableArg, schema), replace |-> replace]

\* The frame main inserts: trimmed to the expected columns, then coerced.
Frame(csv, sch) ==
    [i \in DOMAIN csv.rows |->
        coerce_types(SelectColumns(sch.ordered_cols, csv.rows[i]), sch.types)]

\* Mutant: the table is created before the CSV's columns are checked.
main_create_first(store, csv, schema, tableArg, replace) ==
    LET call    == Call(csv, schema, tableArg, replace)
        sch     == infer_schema(schema)
        missing == MissingColumns(csv, sch.ordered_cols)
        created == create_table(store, call.table, sch, replace)
    IN  IF missing # <<>>
        THEN [store |-> created,
              entry |-> [call |-> call, status |-> "missing columns",
                         missing |-> missing, loaded |-> 0]]
        ELSE LET res == insert_rows(created, call.table, Frame(csv, sch), sch.ordered_cols)
             IN  [store |-> res.store,
                  entry |-> [call |-> call,
                             status |-> IF res.ok THEN "loaded" ELSE "insert failed",
                             missing |-> <<>>,
                             loaded |-> IF res.ok THEN Len(csv.rows) ELSE 0]]

\* load_to_sqlite.main: the store it leaves and the way it ends.  A CSV that
\* lacks an expected column ends it (SystemExit naming the columns) before
\* sqlite3.connect; a failed INSERT ends it after create_table has committed.
main(store, csv, schema, tableArg, replace) ==
    LET call    == Call(csv, schema, tableArg, replace)
        sch     == infer_schema(schema)
        missing == MissingColumns(csv, sch.ordered_cols)
    IN  IF missing # <<>>
        THEN [store |-> store,
              entry |-> [call |-> call, status |-> "missing columns",
                         missing |-> missing, loaded |-> 0]]
        ELSE LET created == create_table(store, call.table, sch, replace)
                 res     == insert_rows(created, call.table, Frame(csv, sch), sch.ordered_cols)
             IN  [store |-> res.store,
                  entry |-> [call |-> call,
                             status |-> IF res.ok THEN "loaded" ELSE "insert failed",
                             missing |-> <<>>,
                             loaded |-> IF res.ok THEN Len(csv.rows) ELSE 0]]

\* One run of the Loader against the store.
Load(csv, schema, tableArg, replace) ==
    /\ Len(log) < MaxLoads
    /\ LET r == main(db, csv, schema, tableArg, replace)
       IN  /\ db' = r.store
           /\ log' = Append(log, r.entry)
    /\ UNCHANGED cleanVars

\* ---- the cleaned files given to the Loader

DateText      == Text(3)
YearMonthText == Text(4)
MainText      == Text(5)
PowerballText == Text(6)
PBText        == Text(7)

WideCsvRow(powerplay) ==
    [Date |-> DateText, Num1 |-> Num(3), Num2 |-> Num(14), Num3 |-> Num(22),
     Num4 |-> Num(35), Num5 |-> Num(41), Powerball |-> Num(9),
     PowerPlay |-> powerplay, Year |-> Num(2020), YearMonth |-> YearMonthText]

LongCsvRow(ballType, ballNumber, position, powerplay) ==
    [Date |-> DateText, BallType |-> ballType, BallNumber |-> ballNumber,
     Position |-> position, PowerPlay |-> powerplay,
     Year |-> Num(2020), YearMonth |-> YearMonthText]

WideCsv1 == [columns |-> WIDE_COLS, rows |-> <<WideCsvRow(Num(2))>>]
WideCsv2 == [columns |-> WIDE_COLS, rows |-> <<WideCsvRow(NaN), WideCsvRow(NaN)>>]
LongCsv1 == [columns |-> LONG_COLS, rows |-> <<LongCsvRow(MainText, Num(3), Num(1), Num(2))>>]
LongCsv2 == [columns |-> LONG_COLS,
             rows |-> <<LongCsvRow(MainText, Num(3), Num(1), NaN),
                        LongCsvRow(PowerballText, Num(9), PBText, NaN)>>]

\* A wide file that lost its Powerball column.
WideCsvNoPowerball ==
    [columns |-> SelectSeq(WIDE_COLS, LAMBDA c : c # "Powerball"),
     rows |-> <<[c \in Range(WIDE_COLS) \ {"Powerball"} |-> WideCsvRow(Num(2))[c]]>>]

\* A long file with its columns in another order and one column more.
LongCsvExtra ==
    [columns |-> <<"Game">> \o [i \in 1..Len(LONG_COLS) |-> LONG_COLS[Len(LONG_COLS) + 1 - i]],
     rows |-> <<SetColumn(LongCsvRow(MainText, Num(3), Num(1), Num(2)), "Game", GameText)>>]

CleanedFiles == {WideCsv1, WideCsv2, LongCsv1, LongCsv2, WideCsvNoPowerball, LongCsvExtra}

Schemas == {"long", "wide"}

TableArgs == {NotGiven, "draws", "draws_wide"}

LoadInit ==
    /\ pc = "start"
    /\ file = [width |-> 11, lines |-> <<Line(Num(1), Num(5), Num(2020), BaseBalls, Num(2))>>]
    /\ outdirMade = FALSE
    /\ raw = NoTable
    /\ wide = <<>>
    /\ long = <<>>
    /\ written = {}
    /\ err = ""
    /\ db = NoDb
    /\ log = <<>>

LoadNext ==
    \E csv \in CleanedFiles, schema \in Schemas, tableArg \in TableArgs, replace \in BOOLEAN :
        Load(csv, schema, tableArg, replace)

LoadSpec == LoadInit /\ [][LoadNext]_vars

\* ------------------------------------------------- properties of the cleaner

BallColumns == <<"Num1","Num2","Num3","Num4","Num5","Powerball">>

Count(seq, x) == Cardinality({ j \in DOMAIN seq : seq[j] = x })

WideBuilt == pc \in {"wide", "long", "done"}
LongBuilt == pc \in {"long", "done"}

\* The s-th of the six long rows that belong to the wide row w: s = 1..5 the
\* Main rows, s = 6 the Powerball row.
SixRows(w, s) ==
    [Date       |-> w["Date"],
     BallType   |-> IF s <= 5 THEN "Main" ELSE "Powerball",
     BallNumber |-> w[BallColumns[s]],
     Position   |-> IF s <= 5 THEN IntPos(s) ELSE StrPos("PB"),
     PowerPlay  |-> w["PowerPlay"],
     Year       |-> w["Year"],
     YearMonth  |-> w["YearMonth"]]

\* C1: once build_long has run, the long table holds, for every wide row, its
\* five Main rows (Position 1..5, BallNumber Num1..Num5) and its Powerball row
\* (Position "PB", BallNumber Powerball), each with the wide row's Date,
\* PowerPlay, Year and YearMonth, each as often as wide rows call for it, and
\* nothing else: its length is six times the wide length.
C1_LongIsSixRowsPerDraw ==
    LongBuilt =>
        /\ Len(long) = 6 * Len(wide)
        /\ \A i \in DOMAIN wide : \A s \in 1..6 :
              Count(long, SixRows(wide[i], s)) =
                  Cardinality({ p \in (DOMAIN wide) \X (1..6) :
                                  SixRows(wide[p[1]], p[2]) = SixRows(wide[i], s) })
        /\ \A j \in DOMAIN long :
              \E i \in DOMAIN wide : \E s \in 1..6 : long[j] = SixRows(wide[i], s)

\* C1 witness: two draws, one of them without PowerPlay, reshaped to twelve rows.
C1_Witness ==
    /\ pc = "long"
    /\ Len(wide) = 2
    /\ Len(long) = 12
    /\ \E i \in DOMAIN wide : wide[i]["PowerPlay"] = NA

\* C2 (as claimed): every wide row has non-null integer Num1..Num5 and
\* Powerball, and a Date that is a calendar date and is the (Year, Month, Day)
\* of a raw row with those numbers.
C2_WideRowsMatchSource ==
    WideBuilt =>
        \A i \in DOMAIN wide :
            /\ \A c \in Range(BallColumns) : Len(wide[i][c]) = 1 /\ wide[i][c][1] \in Int
            /\ Len(wide[i]["PowerPlay"]) \in {0, 1}
            /\ Len(wide[i]["Date"]) = 3
            /\ IsCalendarDate(wide[i]["Date"][1], wide[i]["Date"][2], wide[i]["Date"][3])
            /\ \E j \in DOMAIN raw.rows :
                  /\ raw.rows[j]["Year"]  = Num(wide[i]["Date"][1])
                  /\ raw.rows[j]["Month"] = Num(wide[i]["Date"][2])
                  /\ raw.rows[j]["Day"]   = Num(wide[i]["Date"][3])
                  /\ \A c \in Range(BallColumns) : raw.rows[j][c] = Num(wide[i][c][1])

\* The key of a wide row.
KeyOf(w) == [k \in Range(dedupe_keys) |-> w[k]]

\* The rows that survive date derivation and the number filter, before
\* sorting and deduplication.
Survivors == CleanedRows(raw.rows)

\* C3: the wide table has exactly one row for every key found among the
\* surviving rows, that row equals the surviving rows of that key in every
\* column, and rows that differ in any key field (the Date apart) are all kept.
C3_OneRowPerKey ==
    WideBuilt =>
        /\ \A i, j \in DOMAIN wide : SameKey(wide[i], wide[j]) => i = j
        /\ \A i \in DOMAIN Survivors : Count(wide, Survivors[i]) = 1
        /\ \A i \in DOMAIN wide : \E j \in DOMAIN Survivors : wide[i] = Survivors[j]
        /\ Len(wide) = Cardinality({ KeyOf(Survivors[i]) : i \in DOMAIN Survivors })

\* C3 witness: two identical surviving lines with a null PowerPlay give one row.
C3_Witness ==
    /\ pc = "wide"
    /\ Len(Survivors) = 2
    /\ SameKey(Survivors[1], Survivors[2])
    /\ Survivors[1]["PowerPlay"] = NA
    /\ Len(wide) = 1

\* A raw row without parse failure whose Month/Day/Year form a calendar date.
IsNumeric(cell) == cell.kind = "num"

GoodRow(r) ==
    /\ IsNumeric(r["Year"]) /\ IsNumeric(r["Month"]) /\ IsNumeric(r["Day"])
    /\ IsCalendarDate(r["Year"].val, r["Month"].val, r["Day"].val)
    /\ \A c \in Range(BallColumns) : IsNumeric(r[c])

\* The wide row a good raw row is cleaned to.
CleanOf(r) ==
    [Date      |-> <<r["Year"].val, r["Month"].val, r["Day"].val>>,
     Num1      |-> <<r["Num1"].val>>,
     Num2      |-> <<r["Num2"].val>>,
     Num3      |-> <<r["Num3"].val>>,
     Num4      |-> <<r["Num4"].val>>,
     Num5      |-> <<r["Num5"].val>>,
     Powerball |-> <<r["Powerball"].val>>,
     PowerPlay |-> IF IsNumeric(r["PowerPlay"]) THEN <<r["PowerPlay"].val>> ELSE NA,
     Year      |-> r["Year"].val,
     YearMonth |-> <<r["Year"].val, r["Month"].val>>]

\* C7 (as claimed): build_wide and build_long never raise; the wide rows are
\* exactly the cleaned good rows (a row with a non-numeric or impossible date,
\* or a non-numeric ball, is dropped; a non-numeric PowerPlay is nulled and the
\* row kept), and every long row belongs to a good row.
C7_ParseFailuresDropRow ==
    /\ (raw.ok => pc # "failed")
    /\ WideBuilt =>
          Range(wide) = { CleanOf(raw.rows[j]) : j \in { k \in DOMAIN raw.rows : GoodRow(raw.rows[k]) } }
    /\ LongBuilt =>
          \A i \in DOMAIN long :
              \E j \in DOMAIN raw.rows :
                  /\ GoodRow(raw.rows[j])
                  /\ \E s \in 1..6 : long[i] = SixRows(CleanOf(raw.rows[j]), s)

\* C8: a file whose width is neither 10 nor 11 ends main at read_powerball_csv
\* with the unexpected-column-count error: no table is returned, build_wide and
\* build_long never run and no output file is written.
C8_BadWidthAborts ==
    (file.width \notin {10, 11} /\ pc # "start") =>
        /\ pc = "failed"
        /\ err = UnexpectedColumns
        /\ raw = NoTable
        /\ wide = <<>> /\ long = <<>>
        /\ written = {}

\* C8 witness: a twelve-column file has been read and main has ended.
C8_Witness == file.width = 12 /\ pc = "failed" /\ outdirMade

FixedOrder ==
    <<"Game","Month","Day","Year","Num1","Num2","Num3","Num4","Num5","Powerball","PowerPlay">>

\* C9: read_powerball_csv returns one row per line, with the columns in the
\* fixed order, the first ten (and, for an 11-column file, the eleventh) cell
\* of a line unchanged under its column's name, and PowerPlay null in every
\* row of a 10-column file.
C9_IngestPreservesCells ==
    raw.ok =>
        /\ raw.columns = FixedOrder
        /\ Len(raw.rows) = Len(file.lines)
        /\ \A i \in DOMAIN file.lines :
              /\ DOMAIN raw.rows[i] = Range(FixedOrder)
              /\ \A k \in 1..10 : raw.rows[i][FixedOrder[k]] = file.lines[i][k]
              /\ raw.rows[i]["PowerPlay"] =
                    IF file.width = 11 THEN file.lines[i][11] ELSE NaN

\* C9 witness: a two-line 10-column file has been read.
C9_Witness ==
    /\ pc = "read"
    /\ file.width = 10
    /\ Len(raw.rows) = 2
    /\ raw.rows[2]["PowerPlay"] = NaN
    /\ raw.rows[1]["Month"] # raw.rows[2]["Month"]

\* -------------------------------------------------- properties of the Loader

Last == log[Len(log)]

Rows(store, table) == store.tables[table].rows

\* A CSV that has every column of the schema it is loaded with.
ValidFor(csv, schema) ==
    \A c \in Range(IF schema = "long" THEN LONG_COLS ELSE WIDE_COLS) : c \in Range(csv.columns)

\* C4: after a run with --replace of a file valid for its schema, whatever the
\* target table held before, the run has succeeded and the table holds exactly
\* the file's n rows (so a second such run leaves the count of the first).
C4_ReplaceLeavesFileRows ==
    (log # <<>> /\ Last.call.replace /\ ValidFor(Last.call.csv, Last.call.schema)) =>
        /\ Last.status = "loaded"
        /\ db.tables[Last.call.table].exists
        /\ Len(Rows(db, Last.call.table)) = Len(Last.call.csv.rows)

\* C4 witness: the same two-row file loaded twice with --replace.
C4_Witness ==
    /\ Len(log) = 2
    /\ log[1].call = log[2].call
    /\ Last.call.replace
    /\ Last.status = "loaded"
    /\ Len(Last.call.csv.rows) = 2
    /\ Len(Rows(db, Last.call.table)) = 2

\* C5: the same valid n-row file loaded twice without --replace into a table
\* that was absent leaves 2n rows; and every successful run without --replace
\* appends the file's n rows to the rows the table held.
C5_NoReplaceAccumulates ==
    /\ [](  (/\ Len(log) = 2
             /\ log[1].call = log[2].call
             /\ ~Last.call.replace
             /\ ValidFor(Last.call.csv, Last.call.schema))
          => (/\ log[1].status = "loaded" /\ log[2].status = "loaded"
              /\ Len(Rows(db, Last.call.table)) = 2 * Len(Last.call.csv.rows)))
    /\ [][ (/\ Len(log') = Len(log) + 1
            /\ ~log'[Len(log')].call.replace
            /\ log'[Len(log')].status = "loaded")
           => LET c == log'[Len(log')].call
              IN  /\ Len(Rows(db', c.table)) = Len(Rows(db, c.table)) + Len(c.csv.rows)
                  /\ SubSeq(Rows(db', c.table), 1, Len(Rows(db, c.table))) = Rows(db, c.table) ]_vars

\* C5 witness: a two-row file loaded twice without --replace, four rows held.
C5_Witness ==
    /\ Len(log) = 2
    /\ log[1].call = log[2].call
    /\ ~Last.call.replace
    /\ Len(Last.call.csv.rows) = 2
    /\ Len(Rows(db, Last.call.table)) = 4

\* C6: a run on a CSV that lacks a column of the selected schema ends with the
\* missing-columns error, which names exactly the expected columns the CSV
\* lacks, and leaves the store as it was: no table created, dropped or filled.
C6_MissingColumnAborts ==
    [][ (Len(log') = Len(log) + 1
         /\ ~ValidFor(log'[Len(log')].call.csv, log'[Len(log')].call.schema))
        => LET e == log'[Len(log')]
           IN  /\ e.status = "missing columns"
               /\ e.missing # <<>>
               /\ Range(e.missing) =
                     { c \in Range(infer_schema(e.call.schema).ordered_cols) :
                         c \notin Range(e.call.csv.columns) }
               /\ e.loaded = 0
               /\ db' = db ]_vars

\* C6 witness: a wide file without Powerball was given with --replace while
\* the target table held rows, which it still holds.
C6_Witness ==
    /\ Len(log) = 2
    /\ Last.status = "missing columns"
    /\ Last.call.replace
    /\ Last.call.schema = "wide"
    /\ Last.missing = <<"Powerball">>
    /\ Len(Rows(db, Last.call.table)) = 2

\* C10 (as claimed): without --table, a wide load and a long load go to
\* different tables, and a wide load without --replace is never aimed at a
\* table that has the long columns.
C10_DefaultTableBySchema ==
    /\ \A i, j \in DOMAIN log :
          (/\ log[i].call.tableArg = NotGiven /\ log[j].call.tableArg = NotGiven
           /\ log[i].call.schema # log[j].call.schema)
          => log[i].call.table # log[j].call.table
    /\ (/\ log # <<>>
        /\ Last.call.tableArg = NotGiven
        /\ Last.call.schema = "wide"
        /\ ~Last.call.replace
        /\ Last.status # "missing columns")
       => db.tables[Last.call.table].cols # LONG_COLS

\* C10 (amended): without --table every load, wide or long, goes to the table
\* draws; a wide load without --replace that finds draws holding the long
\* columns fails at its INSERT and leaves the table's columns and rows as
\* they were.
C10_DefaultTableIsDraws ==
    [][ Len(log') = Len(log) + 1 =>
          LET e == log'[Len(log')]
          IN  /\ (e.call.tableArg = NotGiven => e.call.table = "draws")
              /\ (/\ e.call.tableArg = NotGiven
                  /\ e.call.schema = "wide"
                  /\ ~e.call.replace
                  /\ ValidFor(e.call.csv, "wide")
                  /\ db.tables["draws"].exists
                  /\ db.tables["draws"].cols = LONG_COLS)
                 => (/\ e.status = "insert failed"
                     /\ db'.tables = db.tables) ]_vars

\* C10 witness: a long file, then a wide file, both without --table and
\* without --replace; the second run failed and draws keeps its long rows.
C10_Witness ==
    /\ Len(log) = 2
    /\ log[1].call.tableArg = NotGiven /\ log[1].call.schema = "long"
    /\ log[1].status = "loaded"
    /\ log[2].call.tableArg = NotGiven /\ log[2].call.schema = "wide"
    /\ ~log[2].call.replace
    /\ log[2].status = "insert failed"
    /\ db.tables["draws"].cols = LONG_COLS
    /\ Len(Rows(db, "draws")) = log[1].loaded

====
